---- MODULE Spec2Model ----
(***************************************************************************)
(* Lead_Gen_Agent (src/lead_gen.py): the two-stage analysis pipeline of    *)
(* the Streamlit script, its reply parser, the report renderer's lookups   *)
(* and the session-scoped analysis history.                                *)
(*                                                                         *)
(* Texts are sequences of lexical units.  A unit is one character          *)
(* (brace, bracket, colon, comma, double quote, backtick, blank, newline)  *)
(* or a word standing for its letters; words contain none of those         *)
(* characters, and "json" is the only word containing the letters json.    *)
(*                                                                         *)
(* JSON values are tagged pairs <<tag, payload>>:                          *)
(*   <<"str", units>>  <<"num", unit>>  <<"bool", "true"|"false">>         *)
(*   <<"null", "null">>  <<"arr", sequence>>  <<"obj", function>>          *)
(***************************************************************************)
EXTENDS Integers, Sequences, FiniteSets, TLC

\* ------------------------------------------------------------------ bounds
MaxRuns == 3
MaxStrLen == 3
MaxPoints == 2

\* ------------------------------------------------------- lexical alphabet
WS == {" ", "\n"}
NumberUnits == {"0", "1", "82", "35"}

\* ------------------------------------------------------------ JSON values
JStr(s) == <<"str", s>>
JNum(u) == <<"num", u>>
JBool(b) == <<"bool", b>>
JNull == <<"null", "null">>
JArr(items) == <<"arr", items>>
JObj(f) == <<"obj", f>>
EmptyMap == [k \in {} |-> JNull]

\* ---------------------------------------------------- str methods (Python)
\* index of the first unit at or after i that is not whitespace (Len + 1 if none)
SkipWS(s, i) ==
    CHOOSE j \in i..(Len(s) + 1) :
        /\ j = Len(s) + 1 \/ s[j] \notin WS
        /\ \A k \in i..(j - 1) : s[k] \in WS

\* index of the last unit that is not whitespace (0 if none)
LastNonWS(s) ==
    CHOOSE j \in 0..Len(s) :
        /\ j = 0 \/ s[j] \notin WS
        /\ \A k \in (j + 1)..Len(s) : s[k] \in WS

\* str.strip()
Strip(s) == SubSeq(s, SkipWS(s, 1), LastNonWS(s))

\* str.startswith(p)
StartsWith(s, p) == Len(s) >= Len(p) /\ SubSeq(s, 1, Len(p)) = p

\* s has old at index i
MatchAt(s, i, old) ==
    i + Len(old) - 1 <= Len(s) /\ SubSeq(s, i, i + Len(old) - 1) = old

\* the left-to-right scan takes the occurrence at i: old is there and no
\* occurrence taken before it reaches i
RECURSIVE Taken(_, _, _)
Taken(s, i, old) ==
    /\ MatchAt(s, i, old)
    /\ \A j \in (i - Len(old) + 1)..(i - 1) : j >= 1 => ~Taken(s, j, old)

Covered(s, i, old) ==
    \E j \in (i - Len(old) + 1)..i : j >= 1 /\ Taken(s, j, old)

\* the units of s[lo..hi] that no taken occurrence covers
RECURSIVE Kept(_, _, _, _)
Kept(s, old, lo, hi) ==
    IF lo > hi THEN <<>>
    ELSE IF lo = hi THEN (IF Covered(s, lo, old) THEN <<>> ELSE <<s[lo]>>)
    ELSE LET mid == (lo + hi) \div 2
         IN  Kept(s, old, lo, mid) \o Kept(s, old, mid + 1, hi)

\* str.replace(old, ""): every non-overlapping occurrence, left to right
Remove(s, old) == Kept(s, old, 1, Len(s))

\* the literal markers of lines 251-252; BT is the backtick character
BT == "BACKTICK"
FenceJson == <<BT, BT, BT, "json">>
Fence == <<BT, BT, BT>>

\* ------------------------------------------------------------- json.loads
Fail == <<FALSE, JNull, 0>>

\* index of the first double quote at or after i (0 if none)
CloseQuote(s, i) ==
    IF \A j \in i..Len(s) : s[j] # "\"" THEN 0
    ELSE CHOOSE j \in i..Len(s) :
            s[j] = "\"" /\ \A k \in i..(j - 1) : s[k] # "\""

\* s[i] is an opening quote
ParseString(s, i) ==
    LET j == CloseQuote(s, i + 1)
    IN  IF j = 0 THEN Fail ELSE <<TRUE, JStr(SubSeq(s, i + 1, j - 1)), j + 1>>

RECURSIVE ParseValue(_, _)
RECURSIVE ParseMembers(_, _, _)
RECURSIVE ParseElements(_, _, _)

ParseValue(s, i0) ==
    LET i == SkipWS(s, i0)
    IN  IF i > Len(s) THEN Fail
        ELSE IF s[i] = "\"" THEN ParseString(s, i)
        ELSE IF s[i] \in NumberUnits THEN <<TRUE, JNum(s[i]), i + 1>>
        ELSE IF s[i] \in {"true", "false"} THEN <<TRUE, JBool(s[i]), i + 1>>
        ELSE IF s[i] = "null" THEN <<TRUE, JNull, i + 1>>
        ELSE IF s[i] = "{" THEN
            LET k == SkipWS(s, i + 1)
            IN  IF k <= Len(s) /\ s[k] = "}" THEN <<TRUE, JObj(EmptyMap), k + 1>>
                ELSE ParseMembers(s, k, EmptyMap)
        ELSE IF s[i] = "[" THEN
            LET k == SkipWS(s, i + 1)
            IN  IF k <= Len(s) /\ s[k] = "]" THEN <<TRUE, JArr(<<>>), k + 1>>
                ELSE ParseElements(s, k, <<>>)
        ELSE Fail

\* i is where a member's key must start; a repeated key keeps the last value
ParseMembers(s, i, acc) ==
    IF i > Len(s) \/ s[i] # "\"" THEN Fail
    ELSE
      LET key == ParseString(s, i)
      IN  IF ~key[1] THEN Fail
          ELSE
            LET c == SkipWS(s, key[3])
            IN  IF c > Len(s) \/ s[c] # ":" THEN Fail
                ELSE
                  LET val == ParseValue(s, c + 1)
                  IN  IF ~val[1] THEN Fail
                      ELSE
                        LET k == key[2][2]
                            acc2 == [x \in DOMAIN acc \cup {k} |->
                                        IF x = k THEN val[2] ELSE acc[x]]
                            e == SkipWS(s, val[3])
                        IN  IF e > Len(s) THEN Fail
                            ELSE IF s[e] = "}" THEN <<TRUE, JObj(acc2), e + 1>>
                            ELSE IF s[e] = ","
                                 THEN ParseMembers(s, SkipWS(s, e + 1), acc2)
                            ELSE Fail

ParseElements(s, i, acc) ==
    LET val == ParseValue(s, i)
    IN  IF ~val[1] THEN Fail
        ELSE
          LET e == SkipWS(s, val[3])
          IN  IF e > Len(s) THEN Fail
              ELSE IF s[e] = "]" THEN <<TRUE, JArr(Append(acc, val[2])), e + 1>>
              ELSE IF s[e] = "," THEN ParseElements(s, e + 1, Append(acc, val[2]))
              ELSE Fail

\* json.loads(text): one value, then only whitespace
JsonLoads(s) ==
    LET v == ParseValue(s, 1)
    IN  IF v[1] /\ SkipWS(s, v[3]) > Len(s) THEN <<TRUE, v[2]>> ELSE <<FALSE, JNull>>

\* ------------------------------------------------- Python value semantics
\* d[k] succeeds only on a dict holding k (KeyError / TypeError otherwise)
HasKey(v, k) == v[1] = "obj" /\ <<k>> \in DOMAIN v[2]
Get(v, k) == v[2][<<k>>]

\* truth value of a parsed JSON value
Truthy(v) ==
    CASE v[1] = "bool" -> v[2] = "true"
      [] v[1] = "num"  -> v[2] # "0"
      [] v[1] = "str"  -> v[2] # <<>>
      [] v[1] = "arr"  -> v[2] # <<>>
      [] v[1] = "obj"  -> DOMAIN v[2] # {}
      [] OTHER         -> FALSE

IsStr(v) == v[1] = "str"

\* for/enumerate accept lists, strings and dicts
Iterable(v) == v[1] \in {"arr", "str", "obj"}

RECURSIVE SetToSeq(_)
SetToSeq(S) ==
    IF S = {} THEN <<>>
    ELSE LET x == CHOOSE y \in S : TRUE IN <<x>> \o SetToSeq(S \ {x})

\* the items a for loop visits: list items in order; a string or a dict
\* yields strings (a dict its keys, here in an arbitrary fixed order)
Elems(v) ==
    CASE v[1] = "arr" -> v[2]
      [] v[1] = "str" -> [i \in 1..Len(v[2]) |-> JStr(<<v[2][i]>>)]
      [] v[1] = "obj" -> [i \in 1..Cardinality(DOMAIN v[2]) |->
                            JStr(SetToSeq(DOMAIN v[2])[i])]
      [] OTHER        -> <<>>

\* one pain point as lines 137-141 and 475-477 read it
PainPointOK(pain) ==
    /\ HasKey(pain, "severity") /\ IsStr(Get(pain, "severity"))
    /\ HasKey(pain, "pain_point")
    /\ HasKey(pain, "evidence")

\* one solution as lines 148-151 and 482-485 read it
SolutionOK(sol) ==
    /\ HasKey(sol, "our_solution")
    /\ HasKey(sol, "addresses_pain_point")
    /\ HasKey(sol, "value_proposition")
    /\ HasKey(sol, "implementation_approach")

\* the loop over the pain points (lines 135-142, 469-477)
PainPointsOK(v) == Iterable(v) /\ \A i \in 1..Len(Elems(v)) : PainPointOK(Elems(v)[i])

\* the loop over the solutions (lines 147-152, 481-485)
SolutionsOK(v) == Iterable(v) /\ \A i \in 1..Len(Elems(v)) : SolutionOK(Elems(v)[i])

\* the lookups of the pain section: raise-free iff this holds
PainLookupsOK(pain_data) ==
    /\ HasKey(pain_data, "potential_pain_points")
    /\ PainPointsOK(Get(pain_data, "potential_pain_points"))
    /\ HasKey(pain_data, "how_we_can_help")
    /\ SolutionsOK(Get(pain_data, "how_we_can_help"))
    /\ HasKey(pain_data, "engagement_strategy")
    /\ HasKey(Get(pain_data, "engagement_strategy"), "primary_contact")
    /\ HasKey(pain_data, "estimated_opportunity_value")
    /\ IsStr(Get(pain_data, "estimated_opportunity_value"))
    /\ HasKey(Get(pain_data, "engagement_strategy"), "key_talking_points")
    /\ Iterable(Get(Get(pain_data, "engagement_strategy"), "key_talking_points"))
    /\ HasKey(Get(pain_data, "engagement_strategy"), "differentiation_angle")
    /\ HasKey(pain_data, "recommended_next_steps")
    /\ Iterable(Get(pain_data, "recommended_next_steps"))

\* the Analyze tab's display of the fit result (lines 432-447)
FitDisplayOK(fit_data) ==
    /\ HasKey(fit_data, "fit_score")
    /\ HasKey(fit_data, "industry")
    /\ HasKey(fit_data, "is_good_fit")
    /\ HasKey(fit_data, "brief_company_overview")
    /\ HasKey(fit_data, "fit_reasoning")

\* the Analyze tab's display of the pain result (lines 465-505)
PainDisplayOK(pain_data) == PainLookupsOK(pain_data)

\* ------------------------------------------------------ generate_pdf_report
NoPain == <<"none", "none">>

\* the fit part of the report (lines 85-128)
RenderFitOK(fit_data) ==
    /\ HasKey(fit_data, "brief_company_overview")
    /\ HasKey(fit_data, "industry")
    /\ HasKey(fit_data, "sector")
    /\ HasKey(fit_data, "company_size")
    /\ HasKey(fit_data, "fit_score")
    /\ HasKey(fit_data, "is_good_fit")
    /\ HasKey(fit_data, "fit_reasoning")

\* `if pain_data:` (line 131): None and an empty dict skip the section
PainSection(pain_data) == pain_data # NoPain /\ Truthy(pain_data)

FitStory(company, fit_data) ==
    << <<"Title", 0, JStr(<<company>>)>>,
       <<"Overview", 0, Get(fit_data, "brief_company_overview")>>,
       <<"Industry", 0, Get(fit_data, "industry")>>,
       <<"Sector", 0, Get(fit_data, "sector")>>,
       <<"CompanySize", 0, Get(fit_data, "company_size")>>,
       <<"FitScore", 0, Get(fit_data, "fit_score")>>,
       <<"GoodFit", 0, JBool(IF Truthy(Get(fit_data, "is_good_fit"))
                              THEN "true" ELSE "false")>>,
       <<"Reasoning", 0, Get(fit_data, "fit_reasoning")>> >>

\* mutant of Enumerated: the start argument of enumerate is left out
EnumeratedFromZero(kind, v) == [i \in 1..Len(Elems(v)) |-> <<kind, i - 1, Elems(v)[i]>>]

\* enumerate(items, 1): one entry per item, numbered from 1, in order
Enumerated(kind, v) == [i \in 1..Len(Elems(v)) |-> <<kind, i, Elems(v)[i]>>]

PainStory(pain_data) ==
    LET strategy == Get(pain_data, "engagement_strategy")
    IN  << <<"PainHeading", 0, JNull>> >>
        \o Enumerated("PainPoint", Get(pain_data, "potential_pain_points"))
        \o << <<"SolutionHeading", 0, JNull>> >>
        \o Enumerated("Solution", Get(pain_data, "how_we_can_help"))
        \o << <<"StrategyHeading", 0, JNull>>,
              <<"PrimaryContact", 0, Get(strategy, "primary_contact")>>,
              <<"OpportunityValue", 0, Get(pain_data, "estimated_opportunity_value")>> >>
        \o Enumerated("TalkingPoint", Get(strategy, "key_talking_points"))
        \o << <<"Differentiation", 0, Get(strategy, "differentiation_angle")>>,
              <<"NextStepsHeading", 0, JNull>> >>
        \o Enumerated("NextStep", Get(pain_data, "recommended_next_steps"))

Footer == << <<"Footer", 0, JNull>> >>

\* generate_pdf_report(company_name, fit_data, pain_data): the story, or a raise
generate_pdf_report(company, fit_data, pain_data) ==
    IF ~RenderFitOK(fit_data) THEN [ok |-> FALSE, story |-> <<>>]
    ELSE IF ~PainSection(pain_data)
         THEN [ok |-> TRUE, story |-> FitStory(company, fit_data) \o Footer]
    ELSE IF ~PainLookupsOK(pain_data) THEN [ok |-> FALSE, story |-> <<>>]
    ELSE [ok |-> TRUE,
          story |-> FitStory(company, fit_data) \o PainStory(pain_data) \o Footer]

\* ------------------------------------------------------- the stage parsers
NotRun == [success |-> FALSE, data |-> JNull, error |-> "not_run"]
Failure(e) == [success |-> FALSE, data |-> JNull, error |-> e]
Success(v) == [success |-> TRUE, data |-> v, error |-> "none"]

\* lines 249-252 / 329-331: strip, then drop the markers if the text starts
\* with the json fence
StripFence(text) ==
    LET t == Strip(text)
    IN  IF StartsWith(t, FenceJson)
        THEN Strip(Remove(Remove(t, FenceJson), Fence))
        ELSE t

\* the try body after the provider call; any raise becomes success: False
ParseReply(text) ==
    LET v == JsonLoads(StripFence(text))
    IN  IF v[1] THEN Success(v[2]) ELSE Failure("ParseError")

ProviderError == <<"ProviderError">>

\* analyze_company_fit: outcome is the provider's raise or its reply text
analyze_company_fit(outcome) ==
    IF outcome = ProviderError THEN Failure("ProviderError") ELSE ParseReply(outcome)

\* generate_pain_point_analysis
generate_pain_point_analysis(outcome) ==
    IF outcome = ProviderError THEN Failure("ProviderError") ELSE ParseReply(outcome)

\* ------------------------------------------------ provider replies (inputs)
Q(w) == <<"\"", w, "\"">>
KV(k, v) == Q(k) \o <<":", " ">> \o v
RECURSIVE Joined(_)
Joined(parts) ==
    IF Len(parts) = 0 THEN <<>>
    ELSE IF Len(parts) = 1 THEN parts[1]
    ELSE parts[1] \o <<",", " ">> \o Joined(Tail(parts))
Object(members) == <<"{">> \o Joined(members) \o <<"}">>
Array(items) == <<"[">> \o Joined(items) \o <<"]">>
Fenced(text) == FenceJson \o <<"\n">> \o text \o <<"\n">> \o Fence

FitMembers(good, score) ==
    << KV("company_name", Q("Acme")),
       KV("industry", Q("Software")),
       KV("sector", Q("Technology")),
       KV("company_size", Q("50-200")),
       KV("is_good_fit", good),
       KV("fit_score", <<score>>),
       KV("fit_reasoning", Q("matches")),
       KV("brief_company_overview", Q("builds")) >>

Without(members, idx) == [i \in 1..(Len(members) - 1) |->
                            IF i < idx THEN members[i] ELSE members[i + 1]]

FitGood == Object(FitMembers(<<"true">>, "82"))
FitGoodFenced == <<"\n">> \o Fenced(Object(FitMembers(<<"true">>, "82"))) \o <<" ">>
FitPoor == Object(FitMembers(<<"false">>, "35"))
FitQuotedFalse == Object(FitMembers(Q("false"), "35"))
FitGoodNoSector == Object(Without(FitMembers(<<"true">>, "82"), 3))
FitPoorNoSector == Object(Without(FitMembers(<<"false">>, "35"), 3))
FitNoScore == Object(Without(FitMembers(<<"true">>, "82"), 6))
FitProse == <<"Sure", " ">> \o FitGood
FitBareFence == Fence \o <<"\n">> \o FitGood \o <<"\n">> \o Fence

FitReplies == {FitGood, FitGoodFenced, FitPoor, FitQuotedFalse, FitGoodNoSector,
               FitPoorNoSector, FitNoScore, FitProse, FitBareFence}

PainPointText(sev) ==
    Object(<< KV("pain_point", Q("silos")), KV("severity", Q(sev)),
              KV("evidence", Q("growth")) >>)
SolutionText ==
    Object(<< KV("our_solution", Q("pipelines")),
              KV("addresses_pain_point", Q("silos")),
              KV("value_proposition", Q("speed")),
              KV("implementation_approach", Q("phased")) >>)
StrategyText ==
    Object(<< KV("primary_contact", Q("CTO")),
              KV("key_talking_points", Array(<<Q("roi"), Q("speed")>>)),
              KV("differentiation_angle", Q("focus")) >>)
PainMembers(points) ==
    << KV("potential_pain_points", Array(points)),
       KV("how_we_can_help", Array(<<SolutionText>>)),
       KV("engagement_strategy", StrategyText),
       KV("estimated_opportunity_value", Q("large")),
       KV("recommended_next_steps", Array(<<Q("call"), Q("demo")>>)) >>

PainOne == Object(PainMembers(<<PainPointText("high")>>))
PainTwoFenced == Fenced(Object(PainMembers(<<PainPointText("low"), PainPointText("high")>>)))
PainNoPoints == Object(Without(PainMembers(<<PainPointText("high")>>), 1))
PainProse == <<"Here", " ">> \o PainOne

PainReplies == {PainOne, PainTwoFenced, PainNoPoints, PainProse}

ApiKeys == {"", "sk-key"}
CompanyNames == {"", "Acme"}

\* ------------------------------------------------------------------ state
VARIABLES
    initialised,   \* 'analysis_history' in st.session_state
    history,       \* st.session_state.analysis_history
    h0,            \* the history as the current script run found it
    pc,            \* position of the current script run
    runs,          \* script runs started in this session
    now,           \* wall clock in seconds, as time.strftime last read it
    api_key,       \* sidebar text input
    company_name,  \* tab 1 text input
    fit_result,    \* result of analyze_company_fit
    pain_result,   \* result of generate_pain_point_analysis
    log,           \* provider requests and Streamlit outputs of the current run
    pdf,           \* result of the Analyze tab's generate_pdf_report call
    exc,           \* exception that ended the current run uncaught
    view,          \* records the history tab visited, in visiting order
    p_raw,         \* parser check: a reply text
    p_plain,       \* parser check: result for the text
    p_fenced,      \* parser check: result for the fenced text
    p_stage        \* parser check: which stage parsed

vars == <<initialised, history, h0, pc, runs, now, api_key, company_name, fit_result,
          pain_result, log, pdf, exc, view, p_raw, p_plain, p_fenced, p_stage>>

pipeVars == <<initialised, history, h0, pc, runs, now, api_key, company_name,
              fit_result, pain_result, log, pdf, exc, view>>
parseVars == <<p_raw, p_plain, p_fenced, p_stage>>

NoPdf == [ok |-> FALSE, story |-> <<>>]

PipelineInit ==
    /\ initialised = FALSE
    /\ history = <<>>
    /\ h0 = <<>>
    /\ pc = "idle"
    /\ runs = 0
    /\ now = 0
    /\ api_key = ""
    /\ company_name = ""
    /\ fit_result = NotRun
    /\ pain_result = NotRun
    /\ log = <<>>
    /\ pdf = NoPdf
    /\ exc = "none"
    /\ view = <<>>

Init ==
    /\ PipelineInit
    /\ p_raw = <<>>
    /\ p_plain = NotRun
    /\ p_fenced = NotRun
    /\ p_stage = "none"

\* ------------------------------------------------------------ script run
\* mutant of SessionHistory: the list is recreated by every run
SessionHistoryReset(present, current) == <<>>

\* lines 22-23: the list is created only when the key is missing
SessionHistory(present, current) == IF present THEN current ELSE <<>>

\* mutant of AfterInputs: the guards report but do not stop the analysis
AfterInputsFallsThrough(click, key, name) ==
    IF ~click THEN [pc |-> "tab2", log |-> <<>>]
    ELSE IF key = "" THEN [pc |-> "stage1", log |-> <<"error_api_key">>]
    ELSE IF name = "" THEN [pc |-> "stage1", log |-> <<"error_company_name">>]
    ELSE [pc |-> "stage1", log |-> <<>>]

\* lines 410-415: where a rerun goes after the widgets are read
AfterInputs(click, key, name) ==
    IF ~click THEN [pc |-> "tab2", log |-> <<>>]
    ELSE IF key = "" THEN [pc |-> "tab2", log |-> <<"error_api_key">>]
    ELSE IF name = "" THEN [pc |-> "tab2", log |-> <<"error_company_name">>]
    ELSE [pc |-> "stage1", log |-> <<>>]

\* a rerun of the script starts: session state, sidebar, tab 1 inputs, guards
ScriptStart(click, key, name) ==
    /\ pc = "idle"
    /\ runs < MaxRuns
    /\ runs' = runs + 1
    /\ initialised' = TRUE
    /\ history' = SessionHistory(initialised, history)
    /\ h0' = history'
    /\ api_key' = key
    /\ company_name' = name
    /\ fit_result' = NotRun
    /\ pain_result' = NotRun
    /\ pdf' = NoPdf
    /\ exc' = "none"
    /\ view' = <<>>
    /\ pc' = AfterInputs(click, key, name).pc
    /\ log' = AfterInputs(click, key, name).log
    /\ UNCHANGED now
    /\ UNCHANGED parseVars

\* lines 417-424: stage 1, one provider request
AnalyzeCompanyFit(outcome) ==
    /\ pc = "stage1"
    /\ log' = Append(log, "request_fit")
    /\ fit_result' = analyze_company_fit(outcome)
    /\ pc' = "fit_result"
    /\ UNCHANGED <<initialised, history, h0, runs, now, api_key, company_name,
                   pain_result, pdf, exc, view>>
    /\ UNCHANGED parseVars

\* mutant of FitSucceeded: the success flag is not looked at
FitSucceededAlways(res) == TRUE

\* line 426
FitSucceeded(res) == res.success

\* mutant of GoodFit: every company counts as a good fit
GoodFitAlways(fit_data) == TRUE

\* line 450: `if fit_data['is_good_fit']:`
GoodFit(fit_data) == Truthy(Get(fit_data, "is_good_fit"))

\* lines 541-552 and 521-532: try generate_pdf_report, offer the download
ExportOutcome(name, fit_data, pain_data) ==
    LET r == generate_pdf_report(name, fit_data, pain_data)
    IN  [pdf |-> r, log |-> IF r.ok THEN <<"download">> ELSE <<"error_pdf">>]

\* mutant of HandleFitResult: a failed stage 1 is tried once more
HandleFitResultRetries ==
    /\ pc = "fit_result"
    /\ IF ~FitSucceeded(fit_result)
       THEN IF Len(log) < 2
            THEN /\ log' = log
                 /\ pc' = "stage1"
                 /\ UNCHANGED <<pdf, exc>>
            ELSE /\ log' = Append(log, "error_fit")
                 /\ pc' = "tab2"
                 /\ UNCHANGED <<pdf, exc>>
       ELSE IF ~FitDisplayOK(fit_result.data)
       THEN /\ log' = Append(log, "step1_complete")
            /\ exc' = "LookupError"
            /\ pc' = "idle"
            /\ UNCHANGED pdf
       ELSE IF GoodFit(fit_result.data)
       THEN /\ log' = log \o <<"step1_complete", "fit_display">>
            /\ pc' = "stage2"
            /\ UNCHANGED <<pdf, exc>>
       ELSE LET e == ExportOutcome(company_name, fit_result.data, NoPain)
            IN  /\ log' = log \o <<"step1_complete", "fit_display", "warning_poor_fit">>
                             \o e.log
                /\ pdf' = e.pdf
                /\ pc' = "tab2"
                /\ UNCHANGED exc
    /\ UNCHANGED <<initialised, history, h0, runs, now, api_key, company_name,
                   fit_result, pain_result, view>>
    /\ UNCHANGED parseVars

\* lines 426-450 and 534-552: stage 1 result, fit display, fit branch
HandleFitResult ==
    /\ pc = "fit_result"
    /\ IF ~FitSucceeded(fit_result)
       THEN /\ log' = Append(log, "error_fit")
            /\ pc' = "tab2"
            /\ UNCHANGED <<pdf, exc>>
       ELSE IF ~FitDisplayOK(fit_result.data)
       THEN /\ log' = Append(log, "step1_complete")
            /\ exc' = "LookupError"
            /\ pc' = "idle"
            /\ UNCHANGED pdf
       ELSE IF GoodFit(fit_result.data)
       THEN /\ log' = log \o <<"step1_complete", "fit_display">>
            /\ pc' = "stage2"
            /\ UNCHANGED <<pdf, exc>>
       ELSE LET e == ExportOutcome(company_name, fit_result.data, NoPain)
            IN  /\ log' = log \o <<"step1_complete", "fit_display", "warning_poor_fit">>
                             \o e.log
                /\ pdf' = e.pdf
                /\ pc' = "tab2"
                /\ UNCHANGED exc
    /\ UNCHANGED <<initialised, history, h0, runs, now, api_key, company_name,
                   fit_result, pain_result, view>>
    /\ UNCHANGED parseVars

\* lines 451-458: stage 2, one provider request
GeneratePainPointAnalysis(outcome) ==
    /\ pc = "stage2"
    /\ log' = Append(log, "request_pain")
    /\ pain_result' = generate_pain_point_analysis(outcome)
    /\ pc' = "pain_result"
    /\ UNCHANGED <<initialised, history, h0, runs, now, api_key, company_name,
                   fit_result, pdf, exc, view>>
    /\ UNCHANGED parseVars

\* mutant of HandlePainResult: a stage 2 failure replaces what was displayed
HandlePainResultWithdraws ==
    /\ pc = "pain_result"
    /\ IF ~pain_result.success
       THEN /\ log' = <<"request_fit", "request_pain", "error_pain">>
            /\ pc' = "tab2"
            /\ UNCHANGED exc
       ELSE IF ~PainDisplayOK(pain_result.data)
       THEN /\ log' = Append(log, "step2_complete")
            /\ exc' = "LookupError"
            /\ pc' = "idle"
       ELSE /\ log' = log \o <<"step2_complete", "pain_display">>
            /\ pc' = "save"
            /\ UNCHANGED exc
    /\ UNCHANGED <<initialised, history, h0, runs, now, api_key, company_name,
                   fit_result, pain_result, pdf, view>>
    /\ UNCHANGED parseVars

\* lines 460-505: stage 2 result and pain display
HandlePainResult ==
    /\ pc = "pain_result"
    /\ IF ~pain_result.success
       THEN /\ log' = Append(log, "error_pain")
            /\ pc' = "tab2"
            /\ UNCHANGED exc
       ELSE IF ~PainDisplayOK(pain_result.data)
       THEN /\ log' = Append(log, "step2_complete")
            /\ exc' = "LookupError"
            /\ pc' = "idle"
       ELSE /\ log' = log \o <<"step2_complete", "pain_display">>
            /\ pc' = "save"
            /\ UNCHANGED exc
    /\ UNCHANGED <<initialised, history, h0, runs, now, api_key, company_name,
                   fit_result, pain_result, pdf, view>>
    /\ UNCHANGED parseVars

\* the record of lines 508-513
AnalysisRecord(ts, name, fit_data, pain_data) ==
    [timestamp |-> ts, company_name |-> name,
     fit_data |-> fit_data, pain_data |-> pain_data]

\* lines 507-515: save to history; the clock read on line 509 shows the
\* second of the previous read (tick = 0) or a later one
SaveToHistory(tick) ==
    /\ pc = "save"
    /\ now' = now + tick
    /\ history' = Append(history, AnalysisRecord(now', company_name,
                                                 fit_result.data, pain_result.data))
    /\ log' = Append(log, "saved")
    /\ pc' = "export"
    /\ UNCHANGED <<initialised, h0, runs, api_key, company_name, fit_result,
                   pain_result, pdf, exc, view>>
    /\ UNCHANGED parseVars

\* mutant of ExportReport: a failed render takes the saved record back
ExportReportRollsBack ==
    /\ pc = "export"
    /\ LET e == ExportOutcome(company_name, fit_result.data, pain_result.data)
       IN  /\ log' = log \o e.log
           /\ pdf' = e.pdf
           /\ history' = IF e.pdf.ok THEN history ELSE h0
    /\ pc' = "tab2"
    /\ UNCHANGED <<initialised, h0, runs, now, api_key, company_name,
                   fit_result, pain_result, exc, view>>
    /\ UNCHANGED parseVars

\* lines 517-532: export after a full analysis
ExportReport ==
    /\ pc = "export"
    /\ LET e == ExportOutcome(company_name, fit_result.data, pain_result.data)
       IN  /\ log' = log \o e.log
           /\ pdf' = e.pdf
    /\ pc' = "tab2"
    /\ UNCHANGED <<initialised, history, h0, runs, now, api_key, company_name,
                   fit_result, pain_result, exc, view>>
    /\ UNCHANGED parseVars

\* ------------------------------------------------------------ history tab
\* mutant of Reversed: the loop walks the list as stored
ReversedForgotten(s) == s

\* reversed(history): from the last record down to the first
RECURSIVE Reversed(_)
Reversed(s) ==
    IF s = <<>> THEN <<>>
    ELSE <<s[Len(s)]>> \o Reversed(SubSeq(s, 1, Len(s) - 1))

\* `'pain_data' in analysis` (line 569)
HasPain(rec) == "pain_data" \in DOMAIN rec

\* analysis.get('pain_data') (line 580)
PainOf(rec) == IF HasPain(rec) THEN rec.pain_data ELSE NoPain

\* lines 565-572: the summary lines of one record, read outside any try
SummaryOK(rec) ==
    /\ HasKey(rec.fit_data, "fit_score")
    /\ HasKey(rec.fit_data, "industry")
    /\ HasKey(rec.fit_data, "is_good_fit")
    /\ HasPain(rec) =>
        /\ HasKey(rec.pain_data, "potential_pain_points")
        /\ Iterable(Get(rec.pain_data, "potential_pain_points"))
        /\ HasKey(rec.pain_data, "how_we_can_help")
        /\ Iterable(Get(rec.pain_data, "how_we_can_help"))
        /\ HasKey(rec.pain_data, "estimated_opportunity_value")

\* lines 576-590: the per-record export, its raise caught
HistoryExport(rec) ==
    IF generate_pdf_report(rec.company_name, rec.fit_data, PainOf(rec)).ok
    THEN "history_download" ELSE "history_pdf_error"

\* the records the loop of line 560 reaches: all, or up to the first whose
\* summary raises
Visited(items) ==
    LET bad == {i \in 1..Len(items) : ~SummaryOK(items[i])}
    IN  IF bad = {} THEN items
        ELSE SubSeq(items, 1, CHOOSE i \in bad : \A j \in bad : i <= j)

RECURSIVE HistoryLog(_)
HistoryLog(items) ==
    IF items = <<>> THEN <<>>
    ELSE IF ~SummaryOK(Head(items)) THEN <<"history_item">>
    ELSE <<"history_item", HistoryExport(Head(items))>> \o HistoryLog(Tail(items))

\* lines 554-590: the history tab, rendered by every script run that gets there
HistoryTab ==
    /\ pc = "tab2"
    /\ IF history = <<>>
       THEN /\ log' = Append(log, "history_empty")
            /\ view' = <<>>
            /\ UNCHANGED exc
       ELSE /\ view' = Visited(Reversed(history))
            /\ log' = log \o HistoryLog(Reversed(history))
            /\ exc' = IF \A i \in 1..Len(history) : SummaryOK(history[i])
                      THEN "none" ELSE "LookupError"
    /\ pc' = "idle"
    /\ UNCHANGED <<initialised, history, h0, runs, now, api_key, company_name,
                   fit_result, pain_result, pdf>>
    /\ UNCHANGED parseVars

Next ==
    \/ \E click \in BOOLEAN, key \in ApiKeys, name \in CompanyNames :
          ScriptStart(click, key, name)
    \/ \E outcome \in FitReplies \cup {ProviderError} : AnalyzeCompanyFit(outcome)
    \/ HandleFitResult
    \/ \E outcome \in PainReplies \cup {ProviderError} : GeneratePainPointAnalysis(outcome)
    \/ HandlePainResult
    \/ \E tick \in 0..1 : SaveToHistory(tick)
    \/ ExportReport
    \/ HistoryTab

Spec == Init /\ [][Next]_vars

\* ------------------------------------------- the reply parsers on their own
StringAlphabet == {BT, "json", "a"}
StringsUpTo(n) == UNION {[1..k -> StringAlphabet] : k \in 0..n}
Quoted(units) == <<"\"">> \o units \o <<"\"">>

\* reply texts that are JSON objects: one string member, every string over
\* StringAlphabet up to MaxStrLen units, and the full replies of both stages
ObjectTexts ==
    {Object(<<KV("note", Quoted(u))>>) : u \in StringsUpTo(MaxStrLen)}
      \cup {FitGood, FitPoor, PainOne}

InitParse ==
    /\ PipelineInit
    /\ p_raw \in ObjectTexts
    /\ p_plain = NotRun
    /\ p_fenced = NotRun
    /\ p_stage = "none"

\* stage 1 parses the reply as it is and inside a json fence
ParseFitReply ==
    /\ p_stage = "none"
    /\ p_plain' = analyze_company_fit(p_raw)
    /\ p_fenced' = analyze_company_fit(Fenced(p_raw))
    /\ p_stage' = "fit"
    /\ UNCHANGED <<p_raw>>
    /\ UNCHANGED pipeVars

\* stage 2 likewise
ParsePainReply ==
    /\ p_stage = "none"
    /\ p_plain' = generate_pain_point_analysis(p_raw)
    /\ p_fenced' = generate_pain_point_analysis(Fenced(p_raw))
    /\ p_stage' = "pain"
    /\ UNCHANGED <<p_raw>>
    /\ UNCHANGED pipeVars

NextParse == ParseFitReply \/ ParsePainReply

SpecParse == InitParse /\ [][NextParse]_vars

\* ------------------------------------------------- the renderer on its own
Severities == {"high", "medium", "low"}
PointLists == UNION {[1..k -> {PainPointText(sev) : sev \in Severities}] : k \in 0..MaxPoints}

\* a stage 2 reply whose lists are all empty
PainEmptyLists ==
    Object(<< KV("potential_pain_points", Array(<<>>)),
              KV("how_we_can_help", Array(<<>>)),
              KV("engagement_strategy",
                 Object(<< KV("primary_contact", Q("CTO")),
                           KV("key_talking_points", Array(<<>>)),
                           KV("differentiation_angle", Q("focus")) >>)),
              KV("estimated_opportunity_value", Q("small")),
              KV("recommended_next_steps", Array(<<>>)) >>)

\* the pain_data arguments: None, an empty dict, and parsed stage 2 replies
\* with every list of up to MaxPoints pain points
RenderPainResults ==
    {NotRun}
      \cup {generate_pain_point_analysis(t) :
              t \in {Object(PainMembers(pts)) : pts \in PointLists}
                      \cup {PainEmptyLists, Object(<<>>)}}

\* the fit_data arguments: parsed stage 1 replies
RenderFitResults ==
    {analyze_company_fit(t) : t \in {FitGood, FitPoor, FitQuotedFalse, FitGoodNoSector}}

\* the pain_data the callers pass (lines 522, 542, 580): the parsed reply, or None
PainArgument(res) == IF res.success THEN res.data ELSE NoPain

InitRender ==
    /\ initialised = FALSE
    /\ history = <<>>
    /\ h0 = <<>>
    /\ pc = "render"
    /\ runs = 0
    /\ now = 0
    /\ api_key = "sk-key"
    /\ company_name = "Acme"
    /\ fit_result \in RenderFitResults
    /\ pain_result \in RenderPainResults
    /\ log = <<>>
    /\ pdf = NoPdf
    /\ exc = "none"
    /\ view = <<>>
    /\ p_raw = <<>>
    /\ p_plain = NotRun
    /\ p_fenced = NotRun
    /\ p_stage = "none"

\* one call of generate_pdf_report
RenderReport ==
    /\ pc = "render"
    /\ pdf' = generate_pdf_report(company_name, fit_result.data,
                                  PainArgument(pain_result))
    /\ pc' = "rendered"
    /\ UNCHANGED <<initialised, history, h0, runs, now, api_key, company_name,
                   fit_result, pain_result, log, exc, view>>
    /\ UNCHANGED parseVars

NextRender == RenderReport

SpecRender == InitRender /\ [][NextRender]_vars

\* ---------------------------------------------------------------- claims
InLog(e) == \E i \in DOMAIN log : log[i] = e
IsRequest(e) == e \in {"request_fit", "request_pain"}
Requests == SelectSeq(log, IsRequest)
Before(a, b) == \E i, j \in DOMAIN log : i < j /\ log[i] = a /\ log[j] = b
IsPrefix(s, t) == Len(s) <= Len(t) /\ SubSeq(t, 1, Len(s)) = s
RunEnded == pc = "idle" /\ runs > 0
StageFailures == {"ProviderError", "ParseError"}
StageOneFailed == fit_result.error \in StageFailures
StageTwoFailed == pain_result.error \in StageFailures
PoorFit ==
    /\ fit_result.success
    /\ HasKey(fit_result.data, "is_good_fit")
    /\ Get(fit_result.data, "is_good_fit") = JBool("false")
ThisRecord == AnalysisRecord(now, company_name, fit_result.data, pain_result.data)

\* C1: a run whose stage 1 succeeded with is_good_fit = false has issued
\* exactly one provider request, the stage 1 request, at every point of the run
C1_PoorFitOneRequest == PoorFit => Requests = <<"request_fit">>

C1_Witness ==
    /\ RunEnded /\ PoorFit /\ exc = "none"
    /\ InLog("warning_poor_fit")
    /\ Requests = <<"request_fit">>

\* C2: every history record holding a pain_data holds a fit_data whose
\* is_good_fit is the boolean true
C2_PainOnlyWithGoodFitTrue ==
    \A i \in DOMAIN history :
        HasPain(history[i]) =>
            /\ HasKey(history[i].fit_data, "is_good_fit")
            /\ Get(history[i].fit_data, "is_good_fit") = JBool("true")

\* C3: a run that ended in full success, or in partial success (poor fit, or
\* stage 2 failed), appended exactly one record, with no pain_data if poor fit
C3_SuccessAppendsOne ==
    (/\ RunEnded
     /\ fit_result.success
     /\ \/ pain_result.success
        \/ StageTwoFailed
        \/ pain_result = NotRun /\ exc = "none")
    => /\ Len(history) = Len(h0) + 1
       /\ SubSeq(history, 1, Len(h0)) = h0
       /\ history[Len(history)].fit_data = fit_result.data
       /\ pain_result = NotRun => ~HasPain(history[Len(history)])

\* C4: once stage 1 has failed, the run has issued only the stage 1 request,
\* never runs stage 2, leaves the history as it found it, and reports the error
C4_StageOneFailureAborts ==
    StageOneFailed =>
        /\ Requests = <<"request_fit">>
        /\ pain_result = NotRun
        /\ history = h0
        /\ pc \in {"fit_result", "tab2", "idle"}
        /\ pc # "fit_result" => InLog("error_fit") /\ exc = "none"

C4_Witness ==
    /\ RunEnded /\ fit_result.error = "ParseError"
    /\ InLog("error_fit") /\ h0 # <<>> /\ history = h0

\* C5: the fit display precedes the stage 2 request, and after a stage 2
\* failure the run reports the error with the fit result and its display kept
C5_PartialSuccessKeepsFit ==
    /\ pc = "stage2" => InLog("fit_display") /\ ~InLog("request_pain")
    /\ InLog("request_pain") => Before("fit_display", "request_pain")
    /\ StageTwoFailed =>
        /\ fit_result.success /\ GoodFit(fit_result.data)
        /\ InLog("fit_display")
        /\ ~InLog("pain_display") /\ ~InLog("saved")
        /\ pc \in {"pain_result", "tab2", "idle"}
        /\ pc # "pain_result" => Before("request_pain", "error_pain")

C5_Witness ==
    /\ RunEnded /\ StageTwoFailed
    /\ Get(fit_result.data, "is_good_fit") = JBool("true")
    /\ Before("fit_display", "error_pain")

\* C6: no run ends with an exception that escaped the script
C6_NoExceptionEscapes == exc = "none"

\* C7: the record is in the history before the export is attempted, a failed
\* export leaves it there, and a failed re-render in the history tab leaves
\* the history as it was
C7_RenderNeverBlocksHistory ==
    /\ pc = "export" =>
        /\ history = Append(h0, ThisRecord)
        /\ ~InLog("download") /\ ~InLog("error_pdf")
    /\ InLog("saved") /\ InLog("error_pdf") => history = Append(h0, ThisRecord)
    /\ InLog("history_pdf_error") =>
        history = IF InLog("saved") THEN Append(h0, ThisRecord) ELSE h0

C7_Witness ==
    /\ RunEnded /\ InLog("saved")
    /\ Before("saved", "error_pdf")
    /\ Before("error_pdf", "history_pdf_error")
    /\ h0 # <<>> /\ history = Append(h0, ThisRecord)

\* C8: the history tab visits the records last appended first: the i-th
\* visited is the i-th from the end, so timestamps never increase
C8_ReverseChronological ==
    (RunEnded /\ exc = "none") =>
        /\ Len(view) = Len(history)
        /\ \A i \in 1..Len(history) : view[i] = history[Len(history) + 1 - i]
        /\ \A i, j \in 1..Len(view) :
              i < j => view[i].timestamp >= view[j].timestamp

C8_Witness ==
    /\ RunEnded /\ Len(history) >= 3 /\ Len(view) = Len(history)
    /\ view[1] = history[Len(history)]
    /\ view[1].timestamp > view[3].timestamp
    /\ view[2] # view[3]

\* C9: every step keeps the history it found as a prefix of the history it
\* leaves, and the list is never created a second time
C9_AppendOnly ==
    [][IsPrefix(history, history') /\ (initialised => initialised')]_vars

C9_Witness ==
    /\ RunEnded /\ runs >= 3
    /\ h0 # <<>> /\ Len(history) > Len(h0)
    /\ InLog("history_download")

\* C10: a reply that is a JSON object parses to the same result with and
\* without a json code fence around it, in both stage parsers
C10_FenceMakesNoDifference == p_stage # "none" => p_plain = p_fenced

\* C11: a report rendered without pain_data has no pain section; one rendered
\* with a PainAnalysis has one pain-point entry per item of
\* potential_pain_points, numbered 1..n, the i-th entry showing the i-th item
IsPainEntry(e) == e[1] = "PainPoint"
IsPainSectionEntry(e) ==
    e[1] \in {"PainHeading", "PainPoint", "SolutionHeading", "Solution",
              "StrategyHeading", "TalkingPoint", "NextStepsHeading", "NextStep"}
PainEntries == SelectSeq(pdf.story, IsPainEntry)
C11_PainEntriesMatchInput ==
    (pc = "rendered" /\ pdf.ok) =>
        /\ ~pain_result.success => SelectSeq(pdf.story, IsPainSectionEntry) = <<>>
        /\ (pain_result.success
            /\ HasKey(pain_result.data, "potential_pain_points")) =>
              LET points == Get(pain_result.data, "potential_pain_points")[2]
              IN  /\ Len(PainEntries) = Len(points)
                  /\ \A i \in 1..Len(points) :
                        PainEntries[i] = <<"PainPoint", i, points[i]>>

C11_Witness ==
    /\ pc = "rendered" /\ pdf.ok /\ pain_result.success
    /\ Len(PainEntries) = MaxPoints
    /\ PainEntries[1][3] # PainEntries[2][3]
    /\ PainEntries[2][2] = 2

\* C12: a run issues the stage 1 request at most once and the stage 2 request
\* at most once, in that order, and the stage 2 request only after stage 1
\* returned success with a parsed reply that passed the fit display
C12_SequentialNoRetry ==
    /\ Requests \in {<<>>, <<"request_fit">>, <<"request_fit", "request_pain">>}
    /\ (pc = "stage2" \/ InLog("request_pain")) =>
          /\ fit_result.success
          /\ FitDisplayOK(fit_result.data)
          /\ Before("request_fit", "fit_display")
    /\ pain_result # NotRun => Requests = <<"request_fit", "request_pain">>

C12_Witness ==
    /\ RunEnded
    /\ Requests = <<"request_fit", "request_pain">>
    /\ fit_result.success /\ pain_result.success
    /\ Before("fit_display", "request_pain")

\* C13 as stated: a click with an empty API key or company name issues no
\* request, renders no document anywhere in the run, leaves the history
\* unchanged and reports nothing but the input error
InputErrors == {"error_api_key", "error_company_name"}
InputRejected == \E e \in InputErrors : InLog(e)
HistoryTabOutputs ==
    {"history_empty", "history_item", "history_download", "history_pdf_error"}
C13_InputErrorRendersNothing ==
    InputRejected =>
        /\ Requests = <<>>
        /\ history = h0
        /\ pdf = NoPdf
        /\ \A i \in DOMAIN log :
              log[i] \in InputErrors \cup {"history_empty", "history_item"}

\* C13 as amended: such a click issues no request, renders no document in the
\* Analyze tab, leaves the history unchanged and reports one input error
\* there; all else the run outputs is the history tab of lines 554-590
C13_InputErrorSkipsAnalysis ==
    InputRejected =>
        /\ api_key = "" \/ company_name = ""
        /\ Requests = <<>>
        /\ fit_result = NotRun /\ pain_result = NotRun
        /\ history = h0
        /\ pdf = NoPdf
        /\ exc = "none"
        /\ log[1] = (IF api_key = "" THEN "error_api_key" ELSE "error_company_name")
        /\ \A i \in 2..Len(log) : log[i] \in HistoryTabOutputs

C13_Witness ==
    /\ RunEnded
    /\ log[1] = "error_company_name" /\ api_key # ""
    /\ h0 # <<>> /\ history = h0
    /\ InLog("history_download")

====
